---- MODULE Spec2Model ----
(***************************************************************************)
(* terminal-clock (src/src/main.rs): a main thread that acquires the       *)
(* terminal, spawns a key watcher, paints the time once per second and     *)
(* releases the terminal when the shared flag `running` reads false, and   *)
(* the watcher thread that polls for Ctrl+C and clears the flag.           *)
(*                                                                         *)
(* Every `?` of main.rs is an early return of Err (exit status 1), every   *)
(* unwrap/expect a panic of the main thread (exit status 101).  The        *)
(* terminal, the clock and the font renderer are the environment: their    *)
(* results are drawn from small sets.                                      *)
(***************************************************************************)
EXTENDS Integers, Sequences, FiniteSets

VARIABLES
    mpc,                \* main thread: the statement it executes next
    exit,               \* "running", or the way the process ended
    fault,              \* the step whose failure ended the process
    raw,                \* terminal: raw mode enabled
    cursorHidden,       \* terminal: cursor hidden
    screen,             \* terminal: what is visible
    queued,             \* stdout: commands queued and not yet flushed
    running,            \* the shared AtomicBool
    wpc,                \* watcher thread: the statement it executes next
    wres,               \* watcher thread: the closure's result
    pending,            \* terminal input: events not yet read
    block,              \* ascii_art_lines: line count and longest line
    ascii_art_width,
    ascii_art_height,
    terminal_width,
    terminal_height,
    start_col,
    start_row,
    current_print_row,
    line,               \* index of the next line of the block to print
    sleepFor,           \* milliseconds the main thread is suspended for
    stores,             \* history: stores into `running`
    ctrlcRead,          \* history: the watcher has read a Ctrl+C key event
    sleepDetected,      \* history: the watcher stored false while main slept
    releases,           \* history: times the cleanup sequence was begun
    elapsed,            \* milliseconds measured by last_update_time.elapsed()
    pressed,            \* history: Ctrl+C has been pressed
    paintsAfterPress,   \* history: paints begun since then (counted to 2)
    paintsAfterStore,   \* history: paints begun since the store of false
    rawCalls,           \* history: calls of enable_raw_mode (counted to 2)
    hideCalls,          \* history: executions of cursor::Hide (counted to 2)
    discarded           \* history: the watcher has read another event

term == <<raw, cursorHidden, screen, queued>>
locals == <<block, ascii_art_width, ascii_art_height, terminal_width,
            terminal_height, start_col, start_row, current_print_row, line>>
watcher == <<wpc, wres>>
hist == <<stores, ctrlcRead, sleepDetected, releases>>
obs == <<pressed, paintsAfterPress, paintsAfterStore, rawCalls, hideCalls,
         discarded>>
vars == <<mpc, exit, fault, term, running, watcher, pending, locals,
          sleepFor, hist, elapsed, obs>>

---------------------------------------------------------------------------
\* Bounds and program constants

MaxPending == 2

U16 == 65536

UpdateIntervalMs == 1000

\* What the environment can return
TermWidths == {40, 80, 65535}

TermHeights == {10, 24, 65535}

\* Rendered blocks: number of lines and length of the longest line (usize)
Blocks == { [lines |-> 0, maxlen |-> 0],
            [lines |-> 6, maxlen |-> 60],
            [lines |-> 11, maxlen |-> 72],
            [lines |-> 2, maxlen |-> 65535],
            [lines |-> 1, maxlen |-> 65596] }

NoBlock == [lines |-> 0, maxlen |-> 0]

ElapsedSamples == {0, 400, 1000, 2500}

Events == { [kind |-> "key", code |-> "c", ctrl |-> TRUE],
            [kind |-> "key", code |-> "c", ctrl |-> FALSE],
            [kind |-> "key", code |-> "x", ctrl |-> TRUE],
            [kind |-> "resize", code |-> "", ctrl |-> FALSE] }

CtrlC == [kind |-> "key", code |-> "c", ctrl |-> TRUE]

---------------------------------------------------------------------------
\* Pure helpers

Min(a, b) == IF a <= b THEN a ELSE b

\* `n as u16`
AsU16(n) == n % U16

WrappingSub(a, b) == (a - b + U16) % U16

\* u16::saturating_sub
SatSub(a, b) == IF a >= b THEN a - b ELSE 0

Center_NoHalf(size, art) == SatSub(size, art)

Center_Half(size, art) == size \div 2

\* terminal_width.saturating_sub(ascii_art_width) / 2
Center(size, art) == SatSub(size, art) \div 2

IsInterrupt_NoModifier(ev) == ev.kind = "key" /\ ev.code = "c"

IsInterrupt_AnyCtrl(ev) == ev.kind = "key" /\ ev.ctrl

\* key_event.code == KeyCode::Char('c') && modifiers.contains(CONTROL)
IsInterrupt(ev) == ev.kind = "key" /\ ev.code = "c" /\ ev.ctrl

\* The effect of one queued command on the visible screen
Show(scr, cmd) ==
    CASE cmd[1] = "Clear" -> "blank"
      [] cmd[1] = "Print" -> "art"
      [] OTHER -> scr

RECURSIVE Apply(_, _)
Apply(scr, cmds) ==
    IF cmds = << >> THEN scr ELSE Apply(Show(scr, Head(cmds)), Tail(cmds))

\* io::stdout() is a LineWriter over a buffer of this many bytes
StdoutCapacity == 1024

\* Decimal digits of n
Digits(n) ==
    IF n < 10 THEN 1 ELSE IF n < 100 THEN 2 ELSE IF n < 1000 THEN 3
    ELSE IF n < 10000 THEN 4 ELSE 5

\* Bytes a queued command writes to stdout: ESC[2J; ESC[<row+1>;<col+1>H;
\* ESC[38;5;10m, the line, ESC[39m
Bytes(cmd) ==
    CASE cmd[1] = "Clear" -> 4
      [] cmd[1] = "MoveTo" -> 4 + Digits(cmd[3] + 1) + Digits(cmd[2] + 1)
      [] cmd[1] = "Print" -> 10 + cmd[3] + 5

RECURSIVE Buffered(_)
Buffered(cmds) ==
    IF cmds = << >> THEN 0 ELSE Bytes(Head(cmds)) + Buffered(Tail(cmds))

\* What stdout.queue(cmd) leaves buffered: a command that does not fit the
\* spare capacity makes the buffer write itself out first, and a command
\* as large as the buffer is written through
AfterQueue(cmds, cmd) ==
    IF Buffered(cmds) + Bytes(cmd) <= StdoutCapacity THEN Append(cmds, cmd)
    ELSE IF Bytes(cmd) < StdoutCapacity THEN <<cmd>>
    ELSE << >>

\* What stdout.queue(cmd) makes visible
ShownByQueue(scr, cmds, cmd) ==
    IF Buffered(cmds) + Bytes(cmd) <= StdoutCapacity THEN scr
    ELSE IF Bytes(cmd) < StdoutCapacity THEN Apply(scr, cmds)
    ELSE Apply(scr, Append(cmds, cmd))

ShouldSleep_Always(e) == TRUE

\* if elapsed < update_interval
ShouldSleep(e) == e < UpdateIntervalMs

InterruptStore_True == TRUE

\* The value stored by r_clone.store(false, SeqCst)
InterruptStore == FALSE

---------------------------------------------------------------------------
Init ==
    /\ mpc = "EnableRaw"
    /\ exit = "running"
    /\ fault = "none"
    /\ raw = FALSE
    /\ cursorHidden = FALSE
    /\ screen = "orig"
    /\ queued = << >>
    /\ running = TRUE
    /\ wpc = "unspawned"
    /\ wres = "none"
    /\ pending = << >>
    /\ block = NoBlock
    /\ ascii_art_width = 0
    /\ ascii_art_height = 0
    /\ terminal_width = 0
    /\ terminal_height = 0
    /\ start_col = 0
    /\ start_row = 0
    /\ current_print_row = 0
    /\ line = 0
    /\ sleepFor = 0
    /\ stores = 0
    /\ ctrlcRead = FALSE
    /\ sleepDetected = FALSE
    /\ releases = 0
    /\ elapsed = 0
    /\ pressed = FALSE
    /\ paintsAfterPress = 0
    /\ paintsAfterStore = 0
    /\ rawCalls = 0
    /\ hideCalls = 0
    /\ discarded = FALSE

Alive == exit = "running"

\* The process ends: std flushes what stdout still buffers, which the
\* terminal may or may not take.
EndProcess(status, step) ==
    /\ mpc' = "Done"
    /\ exit' = status
    /\ fault' = step
    /\ queued' = << >>
    /\ screen' \in {screen, Apply(screen, queued)}

Fail_StoreFalse(step) ==
    /\ EndProcess("err", step)
    /\ running' = FALSE
    /\ stores' = stores + 1
    /\ UNCHANGED <<ctrlcRead, sleepDetected, releases>>

\* `?` on an Err: main returns the error, nothing else is touched
Fail(step) ==
    /\ EndProcess("err", step)
    /\ UNCHANGED <<running, hist>>

\* unwrap()/expect() on a failure: the main thread panics
Panic(step) ==
    /\ EndProcess("panic", step)
    /\ UNCHANGED <<running, hist>>

---------------------------------------------------------------------------
\* The main thread

mainRest == <<watcher, pending, locals, sleepFor>>

\* terminal::enable_raw_mode()?
EnableRaw ==
    /\ Alive /\ mpc = "EnableRaw"
    /\ \/ /\ raw' = TRUE
          /\ mpc' = "HideCursor"
          /\ UNCHANGED <<exit, fault, cursorHidden, screen, queued, running, hist>>
       \/ /\ Fail("enable_raw")
          /\ UNCHANGED <<raw, cursorHidden>>
    /\ UNCHANGED mainRest
    /\ rawCalls' = Min(2, rawCalls + 1)
    /\ UNCHANGED <<elapsed, pressed, paintsAfterPress, paintsAfterStore, hideCalls, discarded>>

\* execute!(stdout, cursor::Hide)?
HideCursor ==
    /\ Alive /\ mpc = "HideCursor"
    /\ \/ /\ cursorHidden' = TRUE
          /\ screen' = Apply(screen, queued)
          /\ queued' = << >>
          /\ mpc' = "Spawn"
          /\ UNCHANGED <<exit, fault, raw, running, hist>>
       \/ /\ Fail("hide_cursor")
          /\ UNCHANGED <<raw, cursorHidden>>
    /\ UNCHANGED mainRest
    /\ hideCalls' = Min(2, hideCalls + 1)
    /\ UNCHANGED <<elapsed, pressed, paintsAfterPress, paintsAfterStore, rawCalls, discarded>>

\* running = Arc::new(AtomicBool::new(true)); thread::spawn(...)
Spawn ==
    /\ Alive /\ mpc = "Spawn"
    /\ running' = TRUE
    /\ wpc' = "poll"
    /\ mpc' = "LoadFont"
    /\ UNCHANGED <<exit, fault, term, wres, pending, locals, sleepFor, hist>>
    /\ UNCHANGED <<elapsed, pressed, paintsAfterPress, paintsAfterStore, rawCalls, hideCalls, discarded>>

\* str::from_utf8(..).expect(..); FIGfont::from_content(..).unwrap();
\* last_update_time = Instant::now()
LoadFont ==
    /\ Alive /\ mpc = "LoadFont"
    /\ \/ /\ mpc' = "LoopTop"
          /\ UNCHANGED <<exit, fault, screen, queued, running, hist>>
       \/ Panic("font")
    /\ UNCHANGED <<raw, cursorHidden>>
    /\ UNCHANGED mainRest
    /\ UNCHANGED <<elapsed, pressed, paintsAfterPress, paintsAfterStore, rawCalls, hideCalls, discarded>>

LoopTop_NoCheck ==
    /\ Alive /\ mpc = "LoopTop"
    /\ mpc' = "GetTime"
    /\ elapsed' = 0
    /\ UNCHANGED <<exit, fault, term, running, hist, obs>>
    /\ UNCHANGED mainRest

LoopTop_Swap ==
    /\ Alive /\ mpc = "LoopTop"
    /\ IF running
         THEN mpc' = "GetTime" /\ UNCHANGED releases
         ELSE mpc' = "ShowCursor" /\ releases' = releases + 1
    /\ running' = TRUE
    /\ UNCHANGED <<exit, fault, term, stores, ctrlcRead, sleepDetected>>
    /\ UNCHANGED mainRest
    /\ elapsed' = 0
    /\ UNCHANGED <<pressed, paintsAfterPress, paintsAfterStore, rawCalls, hideCalls, discarded>>

\* while running.load(Ordering::SeqCst) { .. }  and, once it reads false,
\* the step to the cleanup
LoopTop ==
    /\ Alive /\ mpc = "LoopTop"
    /\ IF running
         THEN mpc' = "GetTime" /\ UNCHANGED releases
         ELSE mpc' = "ShowCursor" /\ releases' = releases + 1
    /\ UNCHANGED <<exit, fault, term, running, stores, ctrlcRead, sleepDetected>>
    /\ UNCHANGED mainRest
    /\ elapsed' = 0
    /\ UNCHANGED <<pressed, paintsAfterPress, paintsAfterStore, rawCalls, hideCalls, discarded>>

\* now().unwrap(); strftime_local("%H:%M:%S", ..).unwrap()
GetTime ==
    /\ Alive /\ mpc = "GetTime"
    /\ \/ /\ mpc' = "Render"
          /\ UNCHANGED <<exit, fault, screen, queued, running, hist>>
       \/ Panic("time")
    /\ UNCHANGED <<raw, cursorHidden>>
    /\ UNCHANGED mainRest
    /\ UNCHANGED <<elapsed, pressed, paintsAfterPress, paintsAfterStore, rawCalls, hideCalls, discarded>>

\* standard_font.convert(..).expect(..); the lines and their dimensions
Render ==
    /\ Alive /\ mpc = "Render"
    /\ \/ /\ \E b \in Blocks :
                /\ block' = b
                /\ ascii_art_height' = AsU16(b.lines)
                /\ ascii_art_width' = AsU16(b.maxlen)
          /\ mpc' = "Size"
          /\ UNCHANGED <<exit, fault, screen, queued, running, hist>>
          /\ UNCHANGED <<terminal_width, terminal_height, start_col, start_row,
                         current_print_row, line>>
       \/ /\ Panic("render")
          /\ UNCHANGED locals
    /\ UNCHANGED <<raw, cursorHidden, watcher, pending, sleepFor>>
    /\ UNCHANGED <<elapsed, pressed, paintsAfterPress, paintsAfterStore, rawCalls, hideCalls, discarded>>

\* terminal::size()?  and the centering of the block
Size ==
    /\ Alive /\ mpc = "Size"
    /\ \/ /\ \E tw \in TermWidths, th \in TermHeights :
                /\ terminal_width' = tw
                /\ terminal_height' = th
                /\ start_col' = Center(tw, ascii_art_width)
                /\ start_row' = Center(th, ascii_art_height)
          /\ mpc' = "QueueClear"
          /\ UNCHANGED <<exit, fault, screen, queued, running, hist>>
          /\ UNCHANGED <<block, ascii_art_width, ascii_art_height,
                         current_print_row, line>>
       \/ /\ Fail("size")
          /\ UNCHANGED locals
    /\ UNCHANGED <<raw, cursorHidden, watcher, pending, sleepFor>>
    /\ UNCHANGED <<elapsed, pressed, paintsAfterPress, paintsAfterStore, rawCalls, hideCalls, discarded>>

\* stdout.queue(Clear(ClearType::All))?; current_print_row = start_row
QueueClear ==
    /\ Alive /\ mpc = "QueueClear"
    /\ \/ /\ queued' = AfterQueue(queued, <<"Clear">>)
          /\ screen' = ShownByQueue(screen, queued, <<"Clear">>)
          /\ current_print_row' = start_row
          /\ line' = 0
          /\ mpc' = IF block.lines = 0 THEN "Flush" ELSE "QueueMoveTo"
          /\ UNCHANGED <<exit, fault, running, hist>>
          /\ UNCHANGED <<block, ascii_art_width, ascii_art_height, terminal_width,
                         terminal_height, start_col, start_row>>
       \/ /\ Fail("queue_clear")
          /\ UNCHANGED locals
    /\ UNCHANGED <<raw, cursorHidden, watcher, pending, sleepFor>>
    /\ paintsAfterPress' = IF pressed THEN Min(2, paintsAfterPress + 1) ELSE 0
    /\ paintsAfterStore' = IF stores > 0 THEN Min(2, paintsAfterStore + 1) ELSE 0
    /\ UNCHANGED <<elapsed, pressed, rawCalls, hideCalls, discarded>>

\* stdout.queue(cursor::MoveTo(start_col, current_print_row))?
\* (every line of a FIGlet block has the block's width)
QueueMoveTo ==
    /\ Alive /\ mpc = "QueueMoveTo"
    /\ \/ /\ queued' = AfterQueue(queued, <<"MoveTo", start_col, current_print_row>>)
          /\ screen' = ShownByQueue(screen, queued,
                                    <<"MoveTo", start_col, current_print_row>>)
          /\ mpc' = "QueuePrint"
          /\ UNCHANGED <<exit, fault, running, hist>>
       \/ Fail("queue_move")
    /\ UNCHANGED <<raw, cursorHidden>>
    /\ UNCHANGED mainRest
    /\ UNCHANGED <<elapsed, pressed, paintsAfterPress, paintsAfterStore, rawCalls, hideCalls, discarded>>

\* stdout.queue(PrintStyledContent(..))?; current_print_row += 1
\* (u16: an overflow panics in a debug build and wraps in a release build)
QueuePrint ==
    /\ Alive /\ mpc = "QueuePrint"
    /\ \/ /\ current_print_row + 1 < U16
          /\ queued' = AfterQueue(queued, <<"Print", line, block.maxlen>>)
          /\ screen' = ShownByQueue(screen, queued, <<"Print", line, block.maxlen>>)
          /\ current_print_row' = current_print_row + 1
          /\ line' = line + 1
          /\ mpc' = IF line + 1 < block.lines THEN "QueueMoveTo" ELSE "Flush"
          /\ UNCHANGED <<exit, fault, running, hist>>
       \/ /\ current_print_row + 1 >= U16
          /\ queued' = AfterQueue(queued, <<"Print", line, block.maxlen>>)
          /\ screen' = ShownByQueue(screen, queued, <<"Print", line, block.maxlen>>)
          /\ current_print_row' = AsU16(current_print_row + 1)
          /\ line' = line + 1
          /\ mpc' = IF line + 1 < block.lines THEN "QueueMoveTo" ELSE "Flush"
          /\ UNCHANGED <<exit, fault, running, hist>>
       \/ /\ current_print_row + 1 >= U16
          /\ Panic("row_overflow")
          /\ UNCHANGED <<current_print_row, line>>
       \/ /\ Fail("queue_print")
          /\ UNCHANGED <<current_print_row, line>>
    /\ UNCHANGED <<block, ascii_art_width, ascii_art_height, terminal_width,
                   terminal_height, start_col, start_row>>
    /\ UNCHANGED <<raw, cursorHidden, watcher, pending, sleepFor>>
    /\ UNCHANGED <<elapsed, pressed, paintsAfterPress, paintsAfterStore, rawCalls, hideCalls, discarded>>

Flush_Rehide ==
    /\ Alive /\ mpc = "Flush"
    /\ \/ /\ screen' = Apply(screen, queued)
          /\ queued' = << >>
          /\ mpc' = "Pace"
          /\ UNCHANGED <<exit, fault, running, hist>>
       \/ Fail("flush")
    /\ hideCalls' = Min(2, hideCalls + 1)
    /\ UNCHANGED <<raw, cursorHidden>>
    /\ UNCHANGED mainRest
    /\ UNCHANGED <<elapsed, pressed, paintsAfterPress, paintsAfterStore, rawCalls, discarded>>

\* stdout.flush()?
Flush ==
    /\ Alive /\ mpc = "Flush"
    /\ \/ /\ screen' = Apply(screen, queued)
          /\ queued' = << >>
          /\ mpc' = "Pace"
          /\ UNCHANGED <<exit, fault, running, hist>>
       \/ Fail("flush")
    /\ UNCHANGED <<raw, cursorHidden>>
    /\ UNCHANGED mainRest
    /\ UNCHANGED <<elapsed, pressed, paintsAfterPress, paintsAfterStore, rawCalls, hideCalls, discarded>>

\* elapsed = last_update_time.elapsed(); if elapsed < update_interval
\* { thread::sleep(update_interval - elapsed) }; the body's locals end here
Pace ==
    /\ Alive /\ mpc = "Pace"
    /\ \E e \in ElapsedSamples :
          /\ elapsed' = e
          /\ IF ShouldSleep(e)
               THEN mpc' = "Sleep" /\ sleepFor' = UpdateIntervalMs - e
               ELSE mpc' = "LoopTop" /\ sleepFor' = 0
    /\ block' = NoBlock
    /\ ascii_art_width' = 0 /\ ascii_art_height' = 0
    /\ terminal_width' = 0 /\ terminal_height' = 0
    /\ start_col' = 0 /\ start_row' = 0
    /\ current_print_row' = 0 /\ line' = 0
    /\ UNCHANGED <<exit, fault, term, running, watcher, pending, hist>>
    /\ UNCHANGED <<pressed, paintsAfterPress, paintsAfterStore, rawCalls, hideCalls, discarded>>

\* thread::sleep returns; last_update_time = Instant::now()
Wake ==
    /\ Alive /\ mpc = "Sleep"
    /\ mpc' = "LoopTop"
    /\ sleepFor' = 0
    /\ UNCHANGED <<exit, fault, term, running, watcher, pending, locals, hist>>
    /\ UNCHANGED <<elapsed, pressed, paintsAfterPress, paintsAfterStore, rawCalls, hideCalls, discarded>>

\* execute!(stdout, cursor::Show)?
ShowCursor ==
    /\ Alive /\ mpc = "ShowCursor"
    /\ \/ /\ cursorHidden' = FALSE
          /\ screen' = Apply(screen, queued)
          /\ queued' = << >>
          /\ mpc' = "DisableRaw"
          /\ UNCHANGED <<exit, fault, raw, running, hist>>
       \/ /\ Fail("show_cursor")
          /\ UNCHANGED <<raw, cursorHidden>>
    /\ UNCHANGED mainRest
    /\ UNCHANGED <<elapsed, pressed, paintsAfterPress, paintsAfterStore, rawCalls, hideCalls, discarded>>

\* terminal::disable_raw_mode()?
DisableRaw ==
    /\ Alive /\ mpc = "DisableRaw"
    /\ \/ /\ raw' = FALSE
          /\ mpc' = "FinalClear"
          /\ UNCHANGED <<exit, fault, cursorHidden, screen, queued, running, hist>>
       \/ /\ Fail("disable_raw")
          /\ UNCHANGED <<raw, cursorHidden>>
    /\ UNCHANGED mainRest
    /\ UNCHANGED <<elapsed, pressed, paintsAfterPress, paintsAfterStore, rawCalls, hideCalls, discarded>>

\* execute!(stdout, Clear(ClearType::All))?; Ok(())
FinalClear ==
    /\ Alive /\ mpc = "FinalClear"
    /\ \/ /\ screen' = Apply(screen, Append(queued, <<"Clear">>))
          /\ queued' = << >>
          /\ mpc' = "Done"
          /\ exit' = "ok"
          /\ UNCHANGED <<fault, running, hist>>
       \/ Fail("final_clear")
    /\ UNCHANGED <<raw, cursorHidden>>
    /\ UNCHANGED mainRest
    /\ UNCHANGED <<elapsed, pressed, paintsAfterPress, paintsAfterStore, rawCalls, hideCalls, discarded>>

---------------------------------------------------------------------------
\* The watcher thread (the closure given to thread::spawn)

\* event::poll(Duration::from_millis(100))?
WatcherPoll ==
    /\ Alive /\ wpc = "poll"
    /\ \/ /\ pending # << >>
          /\ wpc' = "read"
          /\ UNCHANGED wres
       \/ /\ pending = << >>
          /\ wpc' = "check"
          /\ UNCHANGED wres
       \/ /\ wpc' = "done"
          /\ wres' = "err"
    /\ UNCHANGED <<mpc, exit, fault, term, running, pending, locals, sleepFor, hist>>
    /\ UNCHANGED <<elapsed, pressed, paintsAfterPress, paintsAfterStore, rawCalls, hideCalls, discarded>>

SignalStop_NoBreak ==
    /\ running' = InterruptStore
    /\ stores' = stores + 1
    /\ sleepDetected' = (sleepDetected \/ mpc = "Sleep")
    /\ wpc' = "check"
    /\ UNCHANGED <<wres, term>>

SignalStop_Cleanup ==
    /\ running' = InterruptStore
    /\ stores' = stores + 1
    /\ sleepDetected' = (sleepDetected \/ mpc = "Sleep")
    /\ wpc' = "done"
    /\ wres' = "ok"
    /\ raw' = FALSE
    /\ cursorHidden' = FALSE
    /\ UNCHANGED <<screen, queued>>

\* r_clone.store(false, Ordering::SeqCst); break;  then Ok(())
SignalStop ==
    /\ running' = InterruptStore
    /\ stores' = stores + 1
    /\ sleepDetected' = (sleepDetected \/ mpc = "Sleep")
    /\ wpc' = "done"
    /\ wres' = "ok"
    /\ UNCHANGED term

\* event::read()?  and the match of the event against Ctrl+C
WatcherRead ==
    /\ Alive /\ wpc = "read"
    /\ \/ /\ pending # << >>
          /\ pending' = Tail(pending)
          /\ ctrlcRead' = (ctrlcRead \/ Head(pending) = CtrlC)
          /\ IF IsInterrupt(Head(pending))
               THEN SignalStop
               ELSE /\ wpc' = "check"
                    /\ UNCHANGED <<running, stores, sleepDetected, wres, term>>
          /\ UNCHANGED releases
       \/ /\ wpc' = "done"
          /\ wres' = "err"
          /\ UNCHANGED <<running, pending, hist, term>>
    /\ UNCHANGED <<mpc, exit, fault, locals, sleepFor>>
    /\ UNCHANGED <<elapsed, pressed, paintsAfterPress, paintsAfterStore, rawCalls, hideCalls>>
    /\ discarded' = (discarded \/ (pending' # pending /\ Head(pending) # CtrlC))

\* if !r_clone.load(Ordering::SeqCst) { break; }
WatcherCheck ==
    /\ Alive /\ wpc = "check"
    /\ IF running
         THEN wpc' = "poll" /\ UNCHANGED wres
         ELSE wpc' = "done" /\ wres' = "ok"
    /\ UNCHANGED <<mpc, exit, fault, term, running, pending, locals, sleepFor, hist>>
    /\ UNCHANGED <<elapsed, pressed, paintsAfterPress, paintsAfterStore, rawCalls, hideCalls, discarded>>

---------------------------------------------------------------------------
\* The environment: a key is pressed or the terminal resized
KeyPress(ev) ==
    /\ Alive
    /\ Len(pending) < MaxPending
    /\ pending' = Append(pending, ev)
    /\ UNCHANGED <<mpc, exit, fault, term, running, watcher, locals, sleepFor, hist>>
    /\ pressed' = (pressed \/ ev = CtrlC)
    /\ UNCHANGED <<elapsed, paintsAfterPress, paintsAfterStore, rawCalls, hideCalls, discarded>>

Next ==
    \/ EnableRaw
    \/ HideCursor
    \/ Spawn
    \/ LoadFont
    \/ LoopTop
    \/ GetTime
    \/ Render
    \/ Size
    \/ QueueClear
    \/ QueueMoveTo
    \/ QueuePrint
    \/ Flush
    \/ Pace
    \/ Wake
    \/ ShowCursor
    \/ DisableRaw
    \/ FinalClear
    \/ WatcherPoll
    \/ WatcherRead
    \/ WatcherCheck
    \/ \E ev \in Events : KeyPress(ev)

Spec == Init /\ [][Next]_vars

\* The painting of one frame for the tallest blocks a 16-bit height allows,
\* from the state the size query and the centering leave
TallBlocks == { [lines |-> 65535, maxlen |-> 1] }

TallHeights == {1, 65535}

InitRows ==
    /\ mpc = "QueueClear"
    /\ exit = "running"
    /\ fault = "none"
    /\ raw = TRUE
    /\ cursorHidden = TRUE
    /\ screen = "orig"
    /\ queued = << >>
    /\ running = TRUE
    /\ wpc = "poll"
    /\ wres = "none"
    /\ pending = << >>
    /\ block \in TallBlocks
    /\ ascii_art_width = AsU16(block.maxlen)
    /\ ascii_art_height = AsU16(block.lines)
    /\ terminal_width = 80
    /\ terminal_height \in TallHeights
    /\ start_col = Center(terminal_width, ascii_art_width)
    /\ start_row = Center(terminal_height, ascii_art_height)
    /\ current_print_row = 0
    /\ line = 0
    /\ sleepFor = 0
    /\ stores = 0
    /\ ctrlcRead = FALSE
    /\ sleepDetected = FALSE
    /\ releases = 0
    /\ elapsed = 0
    /\ pressed = FALSE
    /\ paintsAfterPress = 0
    /\ paintsAfterStore = 0
    /\ rawCalls = 1
    /\ hideCalls = 1
    /\ discarded = FALSE

NextRows ==
    \/ QueueClear
    \/ QueueMoveTo
    \/ QueuePrint
    \/ Flush

SpecRows == InitRows /\ [][NextRows]_vars

\* Fair scheduling: each thread that can take a step eventually takes one
\* (every poll, read, sleep and terminal call returns)
MainStep ==
    \/ EnableRaw \/ HideCursor \/ Spawn \/ LoadFont \/ LoopTop \/ GetTime
    \/ Render \/ Size \/ QueueClear \/ QueueMoveTo \/ QueuePrint \/ Flush
    \/ Pace \/ Wake \/ ShowCursor \/ DisableRaw \/ FinalClear

WatcherStep == WatcherPoll \/ WatcherRead \/ WatcherCheck

FairSpec == Spec /\ WF_vars(MainStep) /\ WF_vars(WatcherStep)

---------------------------------------------------------------------------
\* Properties

LoopFaults == {"size", "queue_clear", "queue_move", "queue_print", "flush"}

StartupFaults == {"enable_raw", "hide_cursor", "font"}

ReleaseFaults == {"show_cursor", "disable_raw", "final_clear"}

ReleasePcs == {"ShowCursor", "DisableRaw", "FinalClear", "Done"}

Placed == mpc \in {"QueueClear", "QueueMoveTo", "QueuePrint", "Flush"}

\* C1: whenever the process has ended (by a normal stop or by any failure),
\* the terminal has been restored: raw mode is disabled and the cursor is
\* shown.
C1_RestoredOnEveryExit ==
    exit # "running" => (~raw /\ ~cursorHidden)

\* C2: when the size query or a paint operation has failed, the process has
\* ended with a failure status after running the cleanup sequence once, so
\* that raw mode is disabled and the cursor is shown.
C2_LoopFailureReleases ==
    fault \in LoopFaults =>
        (exit = "err" /\ releases = 1 /\ ~raw /\ ~cursorHidden)

\* C3: when startup has failed (raw mode, hiding the cursor, or the font),
\* the process has ended with a non-zero status and the terminal is
\* unaltered or restored: raw mode is not enabled and the cursor is not
\* hidden.
C3_StartupFailureRestores ==
    fault \in StartupFaults =>
        (exit \in {"err", "panic"} /\ ~raw /\ ~cursorHidden)

C5_FlagMonotonic ==
    [][ ~running =>
          /\ ~running'
          /\ (mpc = "LoopTop" /\ mpc' # mpc => mpc' = "ShowCursor")
          /\ (wpc = "check" /\ wpc' # wpc => wpc' = "done") ]_vars

C5_Witness ==
    ~running /\ mpc = "ShowCursor" /\ releases = 1

C7_SuccessOnlyAfterInterrupt ==
    exit = "ok" =>
        (ctrlcRead /\ ~running /\ ~raw /\ ~cursorHidden /\ screen = "blank")

C7_Witness ==
    exit = "ok" /\ ctrlcRead

\* C8: when the block fits the viewport (w <= W and h <= H) the placement
\* is column = (W - w) / 2 and row = (H - h) / 2, truncated, both >= 0;
\* viewport 80x24 with block 60x6 gives (10, 9).
C8_CenteredWhenFits ==
    (Placed /\ ascii_art_width <= terminal_width
            /\ ascii_art_height <= terminal_height) =>
        /\ start_col = (terminal_width - ascii_art_width) \div 2
        /\ start_row = (terminal_height - ascii_art_height) \div 2
        /\ start_col >= 0 /\ start_row >= 0
        /\ 2 * start_col <= terminal_width - ascii_art_width
        /\ 2 * start_col + 1 >= terminal_width - ascii_art_width
        /\ 2 * start_row <= terminal_height - ascii_art_height
        /\ 2 * start_row + 1 >= terminal_height - ascii_art_height
        /\ ((terminal_width = 80 /\ terminal_height = 24
             /\ ascii_art_width = 60 /\ ascii_art_height = 6)
              => (start_col = 10 /\ start_row = 9))

C8_Witness ==
    /\ Placed
    /\ terminal_width = 80 /\ terminal_height = 24
    /\ ascii_art_width = 60 /\ ascii_art_height = 6
    /\ start_col = 10 /\ start_row = 9

\* C9: when the block exceeds the viewport in a dimension the offset in
\* that dimension is 0, whatever the other dimension; no coordinate is
\* negative or wrapped around; viewport 40x10 with block 60x6 gives (0, 2).
C9_ClampedWhenExceeds ==
    Placed =>
        /\ (ascii_art_width > terminal_width => start_col = 0)
        /\ (ascii_art_height > terminal_height => start_row = 0)
        /\ start_col >= 0 /\ start_col <= terminal_width
        /\ start_row >= 0 /\ start_row <= terminal_height
        /\ ((terminal_width = 40 /\ terminal_height = 10
             /\ ascii_art_width = 60 /\ ascii_art_height = 6)
              => (start_col = 0 /\ start_row = 2))

C9_Witness ==
    /\ Placed
    /\ terminal_width = 40 /\ terminal_height = 10
    /\ ascii_art_width = 60 /\ ascii_art_height = 6
    /\ start_col = 0 /\ start_row = 2

\* C10: the watcher has ended only in states where the flag is false.
C10_WatcherEndsOnlyWhenStopped ==
    wpc = "done" => ~running

\* C11 as claimed: at most one paint begins after Ctrl+C has been pressed.
C11_OneFrameAfterPress ==
    paintsAfterPress <= 1

\* C11 as amended: at most one paint begins after the watcher has stored
\* false into the flag.
C11_OneFrameAfterStore ==
    paintsAfterStore <= 1

C11_Witness ==
    stores = 1 /\ paintsAfterStore = 1 /\ mpc = "ShowCursor"

InterruptPending ==
    /\ exit = "running"
    /\ wpc \in {"poll", "read", "check"}
    /\ \E i \in DOMAIN pending : pending[i] = CtrlC

\* C12: under fair scheduling, once Ctrl+C is pressed while the watcher is
\* running, the flag eventually becomes false (unless the process has ended
\* first) and the process eventually terminates.
C12_InterruptEventuallyStops ==
    /\ InterruptPending ~> (~running \/ exit # "running")
    /\ InterruptPending ~> (exit # "running")

LoopPcs == {"LoopTop", "GetTime", "Render", "Size", "QueueClear",
            "QueueMoveTo", "QueuePrint", "Flush", "Pace", "Sleep"}

\* C13: when the watcher reads a Ctrl+C key event it stores false into the
\* flag and ends with that step; an ended watcher never polls again.
C13_InterruptStoresAndEnds ==
    /\ [][ (wpc = "read" /\ pending # << >> /\ Head(pending) = CtrlC
             /\ pending' = Tail(pending))
           => (~running' /\ stores' = stores + 1 /\ wpc' = "done" /\ wres' = "ok") ]_vars
    /\ [][ wpc = "done" => wpc' = "done" ]_vars

C13_Witness ==
    wpc = "done" /\ wres = "ok" /\ ctrlcRead /\ ~running /\ stores = 1

\* C14: an event read by the watcher that is not Ctrl+C leaves the flag
\* unchanged and sends the watcher to its check of the flag, from which it
\* polls again whenever the flag is true.
C14_OtherInputDiscarded ==
    /\ [][ (wpc = "read" /\ pending # << >> /\ Head(pending) # CtrlC
             /\ pending' = Tail(pending))
           => (running' = running /\ stores' = stores /\ wpc' = "check") ]_vars
    /\ [][ (wpc = "check" /\ running /\ wpc' # wpc) => wpc' = "poll" ]_vars

C14_Witness ==
    discarded /\ wpc = "poll" /\ running /\ stores = 0 /\ exit = "running"

\* C15: raw mode is enabled once and the cursor hidden once, both before
\* the watcher exists and before the loop is entered, and neither is done
\* again in the loop or afterwards.
C15_AcquireOnceFirst ==
    /\ rawCalls <= 1 /\ hideCalls <= 1
    /\ (wpc # "unspawned" => (rawCalls = 1 /\ hideCalls = 1))
    /\ (mpc \in LoopPcs => (rawCalls = 1 /\ hideCalls = 1 /\ raw /\ cursorHidden))
    /\ (paintsAfterPress > 0 => (rawCalls = 1 /\ hideCalls = 1))
    /\ (mpc = "HideCursor" => (rawCalls = 1 /\ hideCalls = 0 /\ raw))

C15_Witness ==
    mpc = "Pace" /\ wpc = "check" /\ rawCalls = 1 /\ hideCalls = 1 /\ screen = "art"

\* C17: a step of the watcher leaves raw mode, the cursor, the screen and
\* stdout's queue unchanged; every change of them is a step of the main
\* thread.
C17_WatcherLeavesTerminal ==
    [][ (raw' # raw \/ cursorHidden' # cursorHidden \/ screen' # screen
          \/ queued' # queued)
        => (mpc' # mpc /\ UNCHANGED <<wpc, wres>>) ]_vars

C17_Witness ==
    wpc = "done" /\ wres = "ok" /\ raw /\ cursorHidden /\ exit = "running"
      /\ mpc = "QueuePrint"

\* C18: the pacing step suspends for interval - elapsed, a positive time,
\* when elapsed < interval and not at all otherwise; the suspension is
\* never negative; the pacing step is reached only from the flush of a
\* frame, and an iteration that starts always goes on to paint.
C18_PacedByRemainder ==
    /\ [][ (mpc = "Pace" /\ mpc' # mpc) =>
            \/ /\ elapsed' < UpdateIntervalMs
               /\ mpc' = "Sleep"
               /\ sleepFor' = UpdateIntervalMs - elapsed'
               /\ sleepFor' > 0
            \/ /\ elapsed' >= UpdateIntervalMs
               /\ mpc' = "LoopTop"
               /\ sleepFor' = 0 ]_vars
    /\ [](sleepFor >= 0 /\ sleepFor <= UpdateIntervalMs)
    /\ [][ (mpc' = "Pace" /\ mpc # "Pace") => (mpc = "Flush" /\ queued' = << >>) ]_vars
    /\ [][ (mpc = "LoopTop" /\ running /\ mpc' # mpc) => mpc' = "GetTime" ]_vars
    /\ [][ (mpc = "Sleep" /\ mpc' # mpc) => (mpc' = "LoopTop" /\ sleepFor' = 0) ]_vars

C18_Witness ==
    mpc = "Sleep" /\ elapsed = 400 /\ sleepFor = 600

\* C19: when the block fits the viewport, column + w <= W and row + h <= H;
\* every line is placed at a row below H and ends at or before column W.
C19_PaintedInsideViewport ==
    Placed =>
      /\ (ascii_art_width <= terminal_width /\ ascii_art_height <= terminal_height)
           => /\ start_col + ascii_art_width <= terminal_width
              /\ start_row + ascii_art_height <= terminal_height
      /\ (block.maxlen <= terminal_width /\ block.lines <= terminal_height)
           => /\ start_col + block.maxlen <= terminal_width
              /\ start_row + block.lines <= terminal_height
              /\ (mpc \in {"QueueMoveTo", "QueuePrint"}
                    => current_print_row < terminal_height)
              /\ \A i \in DOMAIN queued :
                    queued[i][1] = "MoveTo" =>
                       /\ queued[i][3] < terminal_height
                       /\ queued[i][2] + block.maxlen <= terminal_width

C19_Witness ==
    /\ mpc = "Flush" /\ line = 6
    /\ block = [lines |-> 6, maxlen |-> 60]
    /\ terminal_width = 80 /\ terminal_height = 24
    /\ Len(queued) = 13

\* C16: while a frame is painted, stdout holds exactly the clear followed by
\* the lines queued so far, line i at (column, row + i), in order, and the
\* screen shows nothing of the frame before the flush.
C16_FrameQueuedThenFlushedOnce ==
    mpc \in {"QueueMoveTo", "QueuePrint", "Flush"} =>
      /\ Len(queued) = 1 + 2 * line + (IF mpc = "QueuePrint" THEN 1 ELSE 0)
      /\ queued[1] = <<"Clear">>
      /\ \A i \in 0 .. (line - 1) :
            /\ queued[2 + 2 * i] = <<"MoveTo", start_col, start_row + i>>
            /\ queued[3 + 2 * i] = <<"Print", i, block.maxlen>>
      /\ (mpc = "QueuePrint" =>
            queued[2 + 2 * line] = <<"MoveTo", start_col, start_row + line>>)
      /\ (mpc = "Flush" => line = block.lines)

\* C20: the row counter never overflows: it equals row + (lines printed),
\* the increment about to be made stays within 16 bits, and no overflow
\* panic happens.
C20_RowCounterInRange ==
    /\ fault # "row_overflow"
    /\ current_print_row < U16
    /\ (mpc \in {"QueueMoveTo", "QueuePrint", "Flush"}
          => current_print_row = start_row + line)
    /\ (mpc = "QueuePrint" => current_print_row + 1 < U16)

C20_Witness ==
    mpc = "Flush" /\ line = 65535 /\ current_print_row = 65535

====
